---- MODULE Spec2Model ----
(***************************************************************************)
(* A model of tasks/libs/pipeline/data.py: the consolidation of the failed *)
(* jobs of a GitLab pipeline (get_failed_jobs), the classification of one  *)
(* failed job (get_job_failure_context), the truncation of job names       *)
(* (truncate_job_name), the reportability filter (should_report_job) and   *)
(* the correlation with the pull request's pipeline                        *)
(* (get_jobs_skipped_on_pr).                                               *)
(*                                                                         *)
(* Text is modelled as it is: a job name is the sequence of its            *)
(* characters, a job log is the sequence of the fragments whose            *)
(* concatenation is the log text.                                          *)
(***************************************************************************)
EXTENDS Integers, Sequences, FiniteSets, TLC

VARIABLES
    \* truncate_job_name(job_name, max_char_per_job)
    tr_pc, job_name, max_char_per_job, truncated_job_name,
    \* get_job_failure_context(job, job_log)
    cl_pc, job, job_log, failure_context,
    \* get_failed_jobs(pipeline)
    pc, pipeline, failed_jobs, idx, processed_failed_jobs, traces,
    \* get_jobs_skipped_on_pr(pipeline, failed_jobs)
    sk_pc, sk_in, sk_calls, sk_result

tr_vars == <<tr_pc, job_name, max_char_per_job, truncated_job_name>>
cl_vars == <<cl_pc, job, job_log, failure_context>>
fj_vars == <<pc, pipeline, failed_jobs, idx, processed_failed_jobs, traces>>
sk_vars == <<sk_pc, sk_in, sk_calls, sk_result>>
vars == <<tr_vars, cl_vars, fj_vars, sk_vars>>

----------------------------------------------------------------------------
(* Bounds of the model. *)

\* the number of pieces a job name of the truncation runs is built from
MaxPieces == 4
\* the length of the filler piece of a job name
FillLen == 30
\* a small value of max_char_per_job, besides the default
SmallMaxChar == 5
\* the number of fragments of a job log of the classification runs
MaxLogLen == 3
\* the number of executions (jobs and bridges) of a pipeline
MaxJobs == 2
\* the number of executions of the pull request's pipeline
MaxPrJobs == 3

----------------------------------------------------------------------------
(* Generic helpers. *)

Min(a, b) == IF a <= b THEN a ELSE b

Range(s) == {s[i] : i \in 1..Len(s)}

IsPrefix(p, s) == Len(p) <= Len(s) /\ SubSeq(s, 1, Len(p)) = p

\* s has the literal w at position p
HasAt(s, w, p) == p >= 1 /\ p + Len(w) - 1 <= Len(s) /\ SubSeq(s, p, p + Len(w) - 1) = w

\* the character class of "." : anything but a newline
Dot(c) == c # "\n"

----------------------------------------------------------------------------
(* truncate_job_name *)

\* the default of the parameter max_char_per_job
DefaultMaxCharPerJob == 48

\* the literals of the pattern kmt_run_.+_tests_.*
KmtRun == <<"k", "m", "t", "_", "r", "u", "n", "_">>
Tests == <<"_", "t", "e", "s", "t", "s", "_">>

\* re.compile(r'kmt_run_.+_tests_.*').fullmatch(s)
FullMatchKmt(s) ==
    /\ HasAt(s, KmtRun, 1)
    /\ \E p \in (Len(KmtRun) + 2)..(Len(s) - Len(Tests) + 1) :
          /\ HasAt(s, Tests, p)
          /\ \A i \in (Len(KmtRun) + 1)..(p - 1) : Dot(s[i])
          /\ \A i \in (p + Len(Tests))..Len(s) : Dot(s[i])

\* pattern.fullmatch(s), for the patterns of the two lists of the module
FullMatch(pattern, s) ==
    CASE pattern = "kmt_run_.+_tests_.*" -> FullMatchKmt(s)
      [] OTHER -> FALSE

jobs_allowed_to_have_full_names == <<"kmt_run_.+_tests_.*">>

jobs_allowed_to_fail_but_need_report == <<>>

\* any(pattern.fullmatch(name) for pattern in patterns)
AnyFullMatch(patterns, name) ==
    \E i \in 1..Len(patterns) : FullMatch(patterns[i], name)

\* s.split(":")[0]
SplitColonFirst(s) ==
    IF \E i \in 1..Len(s) : s[i] = ":"
    THEN LET first == CHOOSE i \in 1..Len(s) :
                        /\ s[i] = ":"
                        /\ \A k \in 1..(i - 1) : s[k] # ":"
         IN SubSeq(s, 1, first - 1)
    ELSE s

\* s[:n]
Slice(s, n) == SubSeq(s, 1, Min(Len(s), n))

\* a plausible slip: the cut to max_char_per_job is left out
truncate_job_name_nocut(name, max_char) ==
    IF AnyFullMatch(jobs_allowed_to_have_full_names, name)
    THEN name
    ELSE SplitColonFirst(name)

truncate_job_name(name, max_char) ==
    IF AnyFullMatch(jobs_allowed_to_have_full_names, name)
    THEN name
    ELSE Slice(SplitColonFirst(name), max_char)

\* the job names of the truncation runs: concatenations of a few pieces
Fill == [i \in 1..FillLen |-> "x"]
Pieces == {KmtRun, Tests, <<":">>, <<"a">>, <<"\n">>, Fill}

\* the concatenation of the pieces ps[1], ..., ps[n]
RECURSIVE Concat(_, _)
Concat(ps, n) == IF n = 0 THEN <<>> ELSE Concat(ps, n - 1) \o ps[n]

MaxCharChoices == {DefaultMaxCharPerJob, SmallMaxChar}

TrInit ==
    /\ tr_pc = "idle"
    /\ job_name = <<>>
    /\ max_char_per_job = DefaultMaxCharPerJob
    /\ truncated_job_name = <<>>

TruncateJobName ==
    /\ tr_pc = "idle"
    /\ \E n \in 0..MaxPieces, m \in MaxCharChoices :
          \E ps \in [1..n -> Pieces] :
              LET name == Concat(ps, n)
              IN /\ job_name' = name
                 /\ max_char_per_job' = m
                 /\ truncated_job_name' = truncate_job_name(name, m)
    /\ tr_pc' = "done"

----------------------------------------------------------------------------
(* FailedJobType, FailedJobReason (tasks/libs/types/types.py) *)

BRIDGE_FAILURE == "BRIDGE_FAILURE"
INFRA_FAILURE == "INFRA_FAILURE"
JOB_FAILURE == "JOB_FAILURE"

RUNNER == "RUNNER"
GITLAB == "GITLAB"
EC2_SPOT == "EC2_SPOT"
E2E_INFRA_FAILURE == "E2E_INFRA_FAILURE"
FAILED_JOB_SCRIPT == "FAILED_JOB_SCRIPT"
FAILED_BRIDGE_JOB == "FAILED_BRIDGE_JOB"

\* a job whose failure_reason attribute is None
NoReason == "None"

\* FailedJobReason.get_infra_failure_mapping(): the platform's failure codes
\* that stand for an infrastructure problem, and the reason of each
get_infra_failure_mapping ==
    [code \in {"runner_system_failure", "stuck_or_timeout_failure", "runner_unsupported"} |->
        CASE code = "runner_system_failure" -> RUNNER
          [] code = "stuck_or_timeout_failure" -> GITLAB
          [] code = "runner_unsupported" -> RUNNER]

\* FailedJobReason.from_gitlab_job_failure_reason(failure_reason)
from_gitlab_job_failure_reason(failure_reason) ==
    IF failure_reason \in DOMAIN get_infra_failure_mapping
    THEN get_infra_failure_mapping[failure_reason]
    ELSE GITLAB

----------------------------------------------------------------------------
(* infra_failure_logs: the pattern table, and re.search on a log *)

\* The fragments a log of the model is made of; the log text is their
\* concatenation.
TokNoBasicAuth == "no basic auth credentials ("
TokTls == "net/http: TLS handshake timeout ("
TokClose == ")"
TokOpen == "("
TokNewline == "\n"
TokDocker == "Docker runner job start script failed"
TokDisposable == "A disposable runner accepted this job, while it shouldn't have. Runners are meant to run just one job and be terminated."
TokPull == "WARNING: Failed to pull image with policy \"always\":"
TokPodWait == "Job failed (system failure): prepare environment: waiting for pod running: timed out waiting for pod to start"
TokWebhook == "Job failed (system failure): prepare environment: setting up build pod: Internal error occurred: failed calling webhook"
TokGit5xx == "fatal: unable to access 'https://gitlab/repo.git/': The requested URL returned error: 503"
TokSpot == "Failed to allocate end to end test EC2 Spot instance after 3 attempts"
TokConn == "Connection to 10.0.0.1 closed by remote host."
TokE2E == "E2E INTERNAL ERROR"
TokScript == "exit status 1"

LogTokens ==
    {TokNoBasicAuth, TokTls, TokClose, TokOpen, TokNewline, TokDocker, TokDisposable,
     TokPull, TokPodWait, TokWebhook, TokGit5xx, TokSpot, TokConn, TokE2E, TokScript}

\* the fragment holds a "(", a ")", a "(" followed by a ")"
HasOpenParen(t) == t \in {TokNoBasicAuth, TokTls, TokOpen, TokPodWait, TokWebhook}
HasCloseParen(t) == t \in {TokClose, TokPodWait, TokWebhook}
HasOpenThenClose(t) == t \in {TokPodWait, TokWebhook}

\* no newline strictly between the fragments i and j: ".*" stays on one line
SameLine(log, i, j) == \A k \in (i + 1)..(j - 1) : log[k] # TokNewline

\* a pattern that is one literal (or one literal with character classes the
\* fragment lit satisfies): found iff the fragment occurs
SearchLiteral(log, lit) == \E i \in 1..Len(log) : log[i] = lit

\* <literal ending in "("> .* ")"
SearchOpenAnyClose(log, open) ==
    \E i \in 1..Len(log), j \in 1..Len(log) :
        /\ i < j
        /\ log[i] = open
        /\ HasCloseParen(log[j])
        /\ SameLine(log, i, j)

\* <literal> .* "(" .* ")"
SearchLitAnyOpenAnyClose(log, lit) ==
    \E i \in 1..Len(log), j \in 1..Len(log), k \in 1..Len(log) :
        /\ i < j /\ j <= k
        /\ log[i] = lit
        /\ HasOpenParen(log[j])
        /\ IF k = j THEN HasOpenThenClose(log[j]) ELSE HasCloseParen(log[k])
        /\ SameLine(log, i, k)

infra_failure_logs == <<
    [regex |-> "no basic auth credentials \\(.*\\)", type |-> RUNNER],
    [regex |-> "net/http: TLS handshake timeout \\(.*\\)", type |-> RUNNER],
    [regex |-> "Docker runner job start script failed", type |-> RUNNER],
    [regex |-> "A disposable runner accepted this job, while it shouldn't have\\. Runners are meant to run just one job and be terminated\\.", type |-> RUNNER],
    [regex |-> "WARNING: Failed to pull image with policy \"always\":.*\\(.*\\)", type |-> RUNNER],
    [regex |-> "Job failed \\(system failure\\): prepare environment: waiting for pod running: timed out waiting for pod to start", type |-> RUNNER],
    [regex |-> "Job failed \\(system failure\\): prepare environment: setting up build pod: Internal error occurred: failed calling webhook", type |-> RUNNER],
    [regex |-> "fatal: unable to access '.*': The requested URL returned error: 5..", type |-> GITLAB],
    [regex |-> "Failed to allocate end to end test EC2 Spot instance after [0-9]+ attempts", type |-> EC2_SPOT],
    [regex |-> "Connection to [0-9]+\\.[0-9]+\\.[0-9]+\\.[0-9]+ closed by remote host\\.", type |-> EC2_SPOT],
    [regex |-> "E2E INTERNAL ERROR", type |-> E2E_INFRA_FAILURE] >>

\* regex.search(job_log), for the patterns of infra_failure_logs
RegexSearch(regex, log) ==
    CASE regex = infra_failure_logs[1].regex -> SearchOpenAnyClose(log, TokNoBasicAuth)
      [] regex = infra_failure_logs[2].regex -> SearchOpenAnyClose(log, TokTls)
      [] regex = infra_failure_logs[3].regex -> SearchLiteral(log, TokDocker)
      [] regex = infra_failure_logs[4].regex -> SearchLiteral(log, TokDisposable)
      [] regex = infra_failure_logs[5].regex -> SearchLitAnyOpenAnyClose(log, TokPull)
      [] regex = infra_failure_logs[6].regex -> SearchLiteral(log, TokPodWait)
      [] regex = infra_failure_logs[7].regex -> SearchLiteral(log, TokWebhook)
      [] regex = infra_failure_logs[8].regex -> SearchLiteral(log, TokGit5xx)
      [] regex = infra_failure_logs[9].regex -> SearchLiteral(log, TokSpot)
      [] regex = infra_failure_logs[10].regex -> SearchLiteral(log, TokConn)
      [] regex = infra_failure_logs[11].regex -> SearchLiteral(log, TokE2E)
      [] OTHER -> FALSE

\* the value of a function that returns nothing
PyNone == "None"

\* the for loop of get_infra_failure_info, from the rule at position i on
RECURSIVE ScanRules(_, _)
ScanRules(log, i) ==
    IF i > Len(infra_failure_logs) THEN PyNone
    ELSE IF RegexSearch(infra_failure_logs[i].regex, log)
         THEN infra_failure_logs[i].type
         ELSE ScanRules(log, i + 1)

get_infra_failure_info(log) ==
    IF log = <<>> THEN GITLAB ELSE ScanRules(log, 1)

ProjectJob == "ProjectJob"
ProjectPipelineBridge == "ProjectPipelineBridge"

\* a plausible slip: the log is looked at before the platform's failure code
get_job_failure_context_log_first(j, log) ==
    IF j.kind = ProjectPipelineBridge
    THEN <<BRIDGE_FAILURE, FAILED_BRIDGE_JOB>>
    ELSE LET type == get_infra_failure_info(log)
         IN IF type # PyNone
            THEN <<INFRA_FAILURE, type>>
            ELSE IF j.failure_reason \in DOMAIN get_infra_failure_mapping
                 THEN <<INFRA_FAILURE, from_gitlab_job_failure_reason(j.failure_reason)>>
                 ELSE <<JOB_FAILURE, FAILED_JOB_SCRIPT>>

get_job_failure_context(j, log) ==
    IF j.kind = ProjectPipelineBridge
    THEN <<BRIDGE_FAILURE, FAILED_BRIDGE_JOB>>
    ELSE IF j.failure_reason \in DOMAIN get_infra_failure_mapping
         THEN <<INFRA_FAILURE, from_gitlab_job_failure_reason(j.failure_reason)>>
         ELSE LET type == get_infra_failure_info(log)
              IN IF type # PyNone
                 THEN <<INFRA_FAILURE, type>>
                 ELSE <<JOB_FAILURE, FAILED_JOB_SCRIPT>>

\* the inputs of the classification runs
FailureReasons == DOMAIN get_infra_failure_mapping \cup {NoReason, "script_failure"}

ClassifyJobs == [kind : {ProjectJob, ProjectPipelineBridge}, failure_reason : FailureReasons]

ClInit ==
    /\ cl_pc = "idle"
    /\ job = [kind |-> ProjectJob, failure_reason |-> NoReason]
    /\ job_log = <<>>
    /\ failure_context = <<PyNone, PyNone>>

GetJobFailureContext ==
    /\ cl_pc = "idle"
    /\ \E j \in ClassifyJobs, n \in 0..MaxLogLen :
          \E log \in [1..n -> LogTokens] :
              /\ job' = j
              /\ job_log' = log
              /\ failure_context' = get_job_failure_context(j, log)
    /\ cl_pc' = "done"


----------------------------------------------------------------------------
(* should_report_job, FailedJobs *)

\* a plausible slip: the negation of allow_failure is dropped
should_report_job_no_not(name, allow_failure) ==
    allow_failure \/ AnyFullMatch(jobs_allowed_to_fail_but_need_report, name)

should_report_job(name, allow_failure) ==
    (~allow_failure) \/ AnyFullMatch(jobs_allowed_to_fail_but_need_report, name)

\* FailedJobs(): an empty report
FailedJobs == <<>>

\* FailedJobs.add_failed_job(job)
add_failed_job(report, final_status) == Append(report, final_status)

\* an entry of the report that the allow-failure policy does not exclude
IsMandatoryFailure(e) ==
    ~(e.allow_failure /\ ~AnyFullMatch(jobs_allowed_to_fail_but_need_report, e.name))

\* FailedJobs.all_mandatory_failures()
all_mandatory_failures(report) == SelectSeq(report, IsMandatoryFailure)

----------------------------------------------------------------------------
(* get_failed_jobs *)

BuildAmd64 == <<"b", "u", "i", "l", "d", ":", "a", "m", "d", "6", "4">>
Build == <<"b", "u", "i", "l", "d">>

\* the values the executions of a pipeline of the model take
JobNames == {BuildAmd64, Build}
Statuses == {"failed", "success", "running"}
CreatedAts == {1, 2}

JobAttrs == [name : JobNames, status : Statuses, created_at : CreatedAts, allow_failure : BOOLEAN]

\* a ProjectJob of pipeline.jobs.list(), a ProjectPipelineBridge of pipeline.bridges.list()
MkJob(i, a) ==
    [id |-> i, name |-> a.name, stage |-> "test", status |-> a.status,
     tag_list |-> <<"arch:amd64">>, allow_failure |-> a.allow_failure, web_url |-> <<"job", i>>,
     created_at |-> a.created_at, failure_reason |-> NoReason, kind |-> ProjectJob]

MkBridge(i, a) ==
    [id |-> i, name |-> a.name, stage |-> "test", status |-> a.status,
     allow_failure |-> a.allow_failure, web_url |-> <<"bridge", i>>,
     created_at |-> a.created_at, failure_reason |-> NoReason, kind |-> ProjectPipelineBridge]

RECURSIVE SeqsUpTo(_, _)
SeqsUpTo(S, n) ==
    IF n = 0 THEN {<<>>}
    ELSE LET prev == SeqsUpTo(S, n - 1)
         IN prev \cup {Append(q, x) : q \in prev, x \in S}

\* a pipeline: its jobs, with the ids 1..Len(a), and its bridges, with the ids after
MkPipeline(a, b) ==
    [jobs |-> [i \in 1..Len(a) |-> MkJob(i, a[i])],
     bridges |-> [i \in 1..Len(b) |-> MkBridge(Len(a) + i, b[i])]]

\* what repo.jobs.get(id).trace() gives: a log, or an error of the transport
TraceLogs == {<<>>, <<TokScript>>, <<TokE2E>>}

\* jobs = pipeline.jobs.list(); jobs.extend(pipeline.bridges.list())
AllJobs(p) == p.jobs \o p.bridges

\* failed_jobs[job.name].append(job), on a dict kept as the sequence of its
\* items in insertion order
DictAppend(d, key, x) ==
    IF \E k \in 1..Len(d) : d[k].name = key
    THEN [k \in 1..Len(d) |-> IF d[k].name = key
                              THEN [d[k] EXCEPT !.jobs = Append(@, x)]
                              ELSE d[k]]
    ELSE Append(d, [name |-> key, jobs |-> <<x>>])

\* the loop that groups the failed jobs by name, from position i on
RECURSIVE GroupFailedJobs(_, _, _)
GroupFailedJobs(jobs, i, d) ==
    IF i > Len(jobs) THEN d
    ELSE GroupFailedJobs(jobs, i + 1,
            IF jobs[i].status = "failed" THEN DictAppend(d, jobs[i].name, jobs[i]) ELSE d)

\* insertion of x after the elements whose created_at is not greater
InsertByCreatedAt(sorted, x) ==
    LET n == Cardinality({k \in 1..Len(sorted) : sorted[k].created_at <= x.created_at})
    IN SubSeq(sorted, 1, n) \o <<x>> \o SubSeq(sorted, n + 1, Len(sorted))

\* jobs.sort(key=lambda x: x.created_at): a stable sort
RECURSIVE SortByCreatedAt(_)
SortByCreatedAt(jobs) ==
    IF jobs = <<>> THEN <<>>
    ELSE InsertByCreatedAt(SortByCreatedAt(SubSeq(jobs, 1, Len(jobs) - 1)), jobs[Len(jobs)])

\* [ijob.status for ijob in jobs]
StatusesOf(jobs) == [k \in 1..Len(jobs) |-> jobs[k].status]

\* the ProjectJob built for the last job of a sorted group
FinalStatus(full_name, jobs, trace) ==
    LET name == truncate_job_name(full_name, DefaultMaxCharPerJob)
        j == jobs[Len(jobs)]
        is_standard_job == j.kind # ProjectPipelineBridge
        context == get_job_failure_context(j, trace)
    IN [name |-> name, full_name |-> full_name, id |-> j.id, stage |-> j.stage,
        status |-> j.status,
        tag_list |-> IF is_standard_job THEN j.tag_list ELSE <<>>,
        allow_failure |-> j.allow_failure, web_url |-> j.web_url,
        retry_summary |-> StatusesOf(jobs),
        failure_type |-> context[1], failure_reason |-> context[2]]

\* if final_status.status == "failed" and should_report_job(...): add_failed_job
AddIfReported(report, final_status) ==
    IF final_status.status = "failed"
       /\ should_report_job(final_status.name, final_status.allow_failure)
    THEN add_failed_job(report, final_status)
    ELSE report

FjInit ==
    /\ pc = "idle"
    /\ pipeline = [jobs |-> <<>>, bridges |-> <<>>]
    /\ failed_jobs = <<>>
    /\ idx = 1
    /\ processed_failed_jobs = FailedJobs
    /\ traces = <<>>

\* lines 16-30: the jobs and bridges are listed and the failed ones grouped
GetFailedJobsBegin ==
    /\ pc = "idle"
    /\ \E n \in 0..MaxJobs :
          \E m \in 0..(MaxJobs - n) :
              \E a \in [1..n -> JobAttrs], b \in [1..m -> JobAttrs] :
                  LET p == MkPipeline(a, b)
                  IN /\ pipeline' = p
                     /\ failed_jobs' = GroupFailedJobs(AllJobs(p), 1, <<>>)
    /\ idx' = 1
    /\ processed_failed_jobs' = FailedJobs
    /\ traces' = <<>>
    /\ pc' = "loop"

\* the group of the current iteration, sorted
CurrentSorted == SortByCreatedAt(failed_jobs[idx].jobs)
CurrentJob == CurrentSorted[Len(CurrentSorted)]

\* one iteration of the loop of lines 31-61 on a standard job whose trace is read
ProcessStandardJob ==
    /\ pc = "loop" /\ idx <= Len(failed_jobs)
    /\ CurrentJob.kind # ProjectPipelineBridge
    /\ \E trace \in TraceLogs :
          processed_failed_jobs' =
              AddIfReported(processed_failed_jobs,
                            FinalStatus(failed_jobs[idx].name, CurrentSorted, trace))
    /\ traces' = Append(traces, CurrentJob.id)
    /\ failed_jobs' = [failed_jobs EXCEPT ![idx].jobs = CurrentSorted]
    /\ idx' = idx + 1
    /\ UNCHANGED <<pc, pipeline>>

\* the same iteration when trace() raises: nothing catches the error
ProcessStandardJobTraceError ==
    /\ pc = "loop" /\ idx <= Len(failed_jobs)
    /\ CurrentJob.kind # ProjectPipelineBridge
    /\ traces' = Append(traces, CurrentJob.id)
    /\ failed_jobs' = [failed_jobs EXCEPT ![idx].jobs = CurrentSorted]
    /\ pc' = "raised"
    /\ UNCHANGED <<pipeline, idx, processed_failed_jobs>>

\* one iteration on a bridge: no trace is read
ProcessBridgeJob ==
    /\ pc = "loop" /\ idx <= Len(failed_jobs)
    /\ CurrentJob.kind = ProjectPipelineBridge
    /\ processed_failed_jobs' =
           AddIfReported(processed_failed_jobs,
                         FinalStatus(failed_jobs[idx].name, CurrentSorted, <<>>))
    /\ failed_jobs' = [failed_jobs EXCEPT ![idx].jobs = CurrentSorted]
    /\ idx' = idx + 1
    /\ UNCHANGED <<pc, pipeline, traces>>

\* line 63: return processed_failed_jobs
GetFailedJobsReturn ==
    /\ pc = "loop" /\ idx > Len(failed_jobs)
    /\ pc' = "done"
    /\ UNCHANGED <<pipeline, failed_jobs, idx, processed_failed_jobs, traces>>


----------------------------------------------------------------------------
(* get_jobs_skipped_on_pr *)

Lint == <<"l", "i", "n", "t">>

\* the names of the jobs of the correlation runs
SkipJobNames == JobNames \cup {Lint}

\* an execution of the pull request's pipeline
PrJobs == [name : SkipJobNames, status : Statuses]

PrPipelineUrl == <<"pipeline", "feature">>

Pr1 == [number |-> 1, ref |-> "feature"]
Pr2 == [number |-> 2, ref |-> "other"]

APipeline ==
    [jobs |-> <<[name |-> Build, status |-> "running"]>>, bridges |-> <<>>,
     web_url |-> PrPipelineUrl]

\* what GitHub and GitLab answer: the pull requests that hold the commit,
\* and the pipelines of each branch
Branches == {"feature", "other"}

\* the worlds in which no pipeline of a pull request is found
UncorrelatedWorlds ==
    {[prs |-> <<>>, pipelines |-> [r \in Branches |-> <<>>]]}
    \cup {[prs |-> <<Pr1, Pr2>>, pipelines |-> [r \in Branches |-> pl]] :
            pl \in {<<>>, <<APipeline>>}}
    \cup {[prs |-> <<Pr1>>, pipelines |-> [r \in Branches |-> <<>>]]}

\* the world of one pull request whose branch has a pipeline of these jobs and bridges
CorrelatedWorld(js, bs) ==
    [prs |-> <<Pr1>>,
     pipelines |-> [r \in Branches |->
                      IF r = "feature"
                      THEN <<[jobs |-> js, bridges |-> bs, web_url |-> PrPipelineUrl]>>
                      ELSE <<>>]]

\* the sequences of distinct elements of S
NoRepeat(S) ==
    {q \in SeqsUpTo(S, Cardinality(S)) : \A i, k \in 1..Len(q) : i # k => q[i] # q[k]}

\* failed_jobs.all_mandatory_failures(), for a report get_failed_jobs built
MandatoryLists ==
    {[i \in 1..Len(q) |->
        [name |-> truncate_job_name(q[i], DefaultMaxCharPerJob), full_name |-> q[i]]] :
        q \in NoRepeat(SkipJobNames)}

\* a plausible slip: no break after the job is appended
RECURSIVE ScanPrJobsNoBreak(_, _, _, _, _)
ScanPrJobsNoBreak(jobs, i, failed_job, generated, missed) ==
    IF i > Len(jobs) THEN [generated |-> generated, missed |-> missed]
    ELSE IF jobs[i].name = failed_job.full_name
         THEN IF jobs[i].status \notin {"failed", "success"}
              THEN ScanPrJobsNoBreak(jobs, i + 1, failed_job, TRUE, Append(missed, failed_job.name))
              ELSE ScanPrJobsNoBreak(jobs, i + 1, failed_job, TRUE, missed)
         ELSE ScanPrJobsNoBreak(jobs, i + 1, failed_job, generated, missed)

\* a plausible slip: the truncated name is compared
RECURSIVE ScanPrJobsByName(_, _, _, _, _)
ScanPrJobsByName(jobs, i, failed_job, generated, missed) ==
    IF i > Len(jobs) THEN [generated |-> generated, missed |-> missed]
    ELSE IF jobs[i].name = failed_job.name
         THEN IF jobs[i].status \notin {"failed", "success"}
              THEN [generated |-> TRUE, missed |-> Append(missed, failed_job.name)]
              ELSE ScanPrJobsByName(jobs, i + 1, failed_job, TRUE, missed)
         ELSE ScanPrJobsByName(jobs, i + 1, failed_job, generated, missed)

\* the inner loop of lines 199-204, from the job at position i on
RECURSIVE ScanPrJobs(_, _, _, _, _)
ScanPrJobs(jobs, i, failed_job, generated, missed) ==
    IF i > Len(jobs) THEN [generated |-> generated, missed |-> missed]
    ELSE IF jobs[i].name = failed_job.full_name
         THEN IF jobs[i].status \notin {"failed", "success"}
              THEN [generated |-> TRUE, missed |-> Append(missed, failed_job.name)]
              ELSE ScanPrJobs(jobs, i + 1, failed_job, TRUE, missed)
         ELSE ScanPrJobs(jobs, i + 1, failed_job, generated, missed)

\* the outer loop of lines 197-206, from the failed job at position f on
RECURSIVE ScanFailedJobs(_, _, _, _)
ScanFailedJobs(jobs, failed, f, missed) ==
    IF f > Len(failed) THEN missed
    ELSE LET r == ScanPrJobs(jobs, 1, failed[f], FALSE, missed)
         IN ScanFailedJobs(jobs, failed, f + 1,
                IF ~r.generated THEN Append(r.missed, failed[f].name) ELSE r.missed)

\* a plausible slip: the first pull request is taken when there are several
get_jobs_skipped_on_pr_first_pr(world, failed) ==
    IF Len(world.prs) = 0
    THEN [missed_jobs |-> <<>>, url |-> <<>>, calls |-> <<"get_pulls">>]
    ELSE LET branch == world.prs[1].ref
             pipelines == world.pipelines[branch]
         IN IF Len(pipelines) = 0
            THEN [missed_jobs |-> <<>>, url |-> <<>>, calls |-> <<"get_pulls", "pipelines.list">>]
            ELSE LET pr_pipeline == pipelines[1]
                     jobs == pr_pipeline.jobs \o pr_pipeline.bridges
                 IN [missed_jobs |-> ScanFailedJobs(jobs, failed, 1, <<>>),
                     url |-> pr_pipeline.web_url,
                     calls |-> <<"get_pulls", "pipelines.list", "jobs.list", "bridges.list">>]

\* get_jobs_skipped_on_pr: the pair it returns (the empty url is <<>>), and
\* the calls it made to GitHub and GitLab
get_jobs_skipped_on_pr(world, failed) ==
    IF Len(world.prs) = 0
    THEN [missed_jobs |-> <<>>, url |-> <<>>, calls |-> <<"get_pulls">>]
    ELSE IF Len(world.prs) > 1
    THEN [missed_jobs |-> <<>>, url |-> <<>>, calls |-> <<"get_pulls">>]
    ELSE LET branch == world.prs[1].ref
             pipelines == world.pipelines[branch]
         IN IF Len(pipelines) = 0
            THEN [missed_jobs |-> <<>>, url |-> <<>>, calls |-> <<"get_pulls", "pipelines.list">>]
            ELSE LET pr_pipeline == pipelines[1]
                     jobs == pr_pipeline.jobs \o pr_pipeline.bridges
                 IN [missed_jobs |-> ScanFailedJobs(jobs, failed, 1, <<>>),
                     url |-> pr_pipeline.web_url,
                     calls |-> <<"get_pulls", "pipelines.list", "jobs.list", "bridges.list">>]

SkInit ==
    /\ sk_pc = "idle"
    /\ sk_in = [world |-> [prs |-> <<>>, pipelines |-> [r \in Branches |-> <<>>]],
                failed |-> <<>>]
    /\ sk_calls = <<>>
    /\ sk_result = <<<<>>, <<>>>>

GetJobsSkippedOnPr ==
    /\ sk_pc = "idle"
    /\ \E failed \in MandatoryLists, correlated \in BOOLEAN :
          \E n \in (IF correlated THEN 0..MaxPrJobs ELSE {0}) :
              \E m \in (IF correlated THEN 0..(MaxPrJobs - n) ELSE {0}) :
                  \E js \in [1..n -> PrJobs], bs \in [1..m -> PrJobs] :
                      \E w \in (IF correlated THEN {CorrelatedWorld(js, bs)}
                                              ELSE UncorrelatedWorlds) :
                          LET r == get_jobs_skipped_on_pr(w, failed)
                          IN /\ sk_in' = [world |-> w, failed |-> failed]
                             /\ sk_calls' = r.calls
                             /\ sk_result' = <<r.missed_jobs, r.url>>
    /\ sk_pc' = "done"

----------------------------------------------------------------------------
(* The specifications: one per function of the module. *)

Init == TrInit /\ ClInit /\ FjInit /\ SkInit

TrNext == TruncateJobName /\ UNCHANGED <<cl_vars, fj_vars, sk_vars>>

ClNext == GetJobFailureContext /\ UNCHANGED <<tr_vars, fj_vars, sk_vars>>

FjNext ==
    \/ GetFailedJobsBegin /\ UNCHANGED <<tr_vars, cl_vars, sk_vars>>
    \/ ProcessStandardJob /\ UNCHANGED <<tr_vars, cl_vars, sk_vars>>
    \/ ProcessStandardJobTraceError /\ UNCHANGED <<tr_vars, cl_vars, sk_vars>>
    \/ ProcessBridgeJob /\ UNCHANGED <<tr_vars, cl_vars, sk_vars>>
    \/ GetFailedJobsReturn /\ UNCHANGED <<tr_vars, cl_vars, sk_vars>>

SkNext == GetJobsSkippedOnPr /\ UNCHANGED <<tr_vars, cl_vars, fj_vars>>

Next == TrNext \/ ClNext \/ FjNext \/ SkNext

Spec == Init /\ [][Next]_vars

SpecTruncate == Init /\ [][TrNext]_vars
SpecClassify == Init /\ [][ClNext]_vars
SpecFailedJobs == Init /\ [][FjNext]_vars
SpecSkipped == Init /\ [][SkNext]_vars

----------------------------------------------------------------------------
(* Properties of truncate_job_name. *)

\* C9: a name that fully matches a pattern of jobs_allowed_to_have_full_names
\* is returned unchanged; any other name gives the part before its first
\* colon cut to max_char_per_job characters: a prefix of the name without a
\* colon, of at most max_char_per_job (48 by default) characters, that stops
\* only at the end of the name, at a colon or at the maximum length.
C9_TruncateJobName ==
    tr_pc = "done" =>
        IF FullMatchKmt(job_name)
        THEN truncated_job_name = job_name
        ELSE /\ IsPrefix(truncated_job_name, job_name)
             /\ \A i \in 1..Len(truncated_job_name) : truncated_job_name[i] # ":"
             /\ Len(truncated_job_name) <= max_char_per_job
             /\ (max_char_per_job = DefaultMaxCharPerJob => Len(truncated_job_name) <= 48)
             /\ \/ Len(truncated_job_name) = max_char_per_job
                \/ Len(truncated_job_name) = Len(job_name)
                \/ job_name[Len(truncated_job_name) + 1] = ":"

\* a name of 60 characters without a colon, cut to exactly 48
C9_Witness ==
    /\ tr_pc = "done"
    /\ max_char_per_job = DefaultMaxCharPerJob
    /\ Len(job_name) = 60
    /\ \A i \in 1..Len(job_name) : job_name[i] # ":"
    /\ ~FullMatchKmt(job_name)
    /\ Len(truncated_job_name) = 48

----------------------------------------------------------------------------
(* Properties of get_job_failure_context. *)

\* the rules of infra_failure_logs that the log matches
MatchingRules(log) ==
    {i \in 1..Len(infra_failure_logs) : RegexSearch(infra_failure_logs[i].regex, log)}

\* C4: the result is that of the first applicable rule: a bridge, then a
\* failure_reason of the infra mapping, then an empty log, then the
\* earliest-listed pattern that the log matches, then the job's own failure.
C4_FirstApplicableRule ==
    cl_pc = "done" =>
        failure_context =
            IF job.kind = ProjectPipelineBridge
                THEN <<BRIDGE_FAILURE, FAILED_BRIDGE_JOB>>
            ELSE IF job.failure_reason \in DOMAIN get_infra_failure_mapping
                THEN <<INFRA_FAILURE, get_infra_failure_mapping[job.failure_reason]>>
            ELSE IF Len(job_log) = 0
                THEN <<INFRA_FAILURE, GITLAB>>
            ELSE IF MatchingRules(job_log) # {}
                THEN LET first == CHOOSE i \in MatchingRules(job_log) :
                                    \A k \in MatchingRules(job_log) : i <= k
                     IN <<INFRA_FAILURE, infra_failure_logs[first].type>>
            ELSE <<JOB_FAILURE, FAILED_JOB_SCRIPT>>

\* a standard job with an infra failure_reason whose log matches a pattern of
\* another reason: the failure_reason decides
C4_Witness ==
    /\ cl_pc = "done"
    /\ job.kind = ProjectJob
    /\ job.failure_reason = "runner_system_failure"
    /\ \E i \in MatchingRules(job_log) : infra_failure_logs[i].type = E2E_INFRA_FAILURE
    /\ \A i \in MatchingRules(job_log) : infra_failure_logs[i].type # RUNNER
    /\ failure_context = <<INFRA_FAILURE, RUNNER>>

----------------------------------------------------------------------------
(* Properties of get_failed_jobs. *)

\* the executions of the pipeline that carry a name
ExecutionsNamed(name) == {j \in Range(AllJobs(pipeline)) : j.name = name}

\* among them, those of the greatest created_at
LatestNamed(name) ==
    {j \in ExecutionsNamed(name) : \A o \in ExecutionsNamed(name) : o.created_at <= j.created_at}

\* C1: a name has an entry in the report only if its latest execution, among
\* all the executions of that name whatever their status, has failed.
C1_OnlyLatestFailedReported ==
    \A k \in 1..Len(processed_failed_jobs) :
        \E j \in LatestNamed(processed_failed_jobs[k].full_name) : j.status = "failed"

\* the permutations of a sequence
PermutationsOf(q) ==
    {[i \in 1..Len(q) |-> q[f[i]]] :
        f \in {g \in [1..Len(q) -> 1..Len(q)] : \A a, b \in 1..Len(q) : a # b => g[a] # g[b]}}

\* the retry_summary get_failed_jobs builds for a name from a list of executions
RetrySummaryOf(jobs, name) ==
    LET d == GroupFailedJobs(jobs, 1, <<>>)
        k == CHOOSE k \in 1..Len(d) : d[k].name = name
    IN StatusesOf(SortByCreatedAt(d[k].jobs))

\* the sequences of the statuses of a set of executions in an ascending
\* order of created_at
AscendingStatuses(E) ==
    {[i \in 1..Cardinality(E) |-> o[i].status] :
        o \in {q \in [1..Cardinality(E) -> E] :
                 /\ \A a, b \in 1..Cardinality(E) : a # b => q[a] # q[b]
                 /\ \A a, b \in 1..Cardinality(E) : a < b => q[a].created_at <= q[b].created_at}}

\* C2: the retry_summary of an entry holds one status per execution of its
\* name, in ascending order of created_at, ends with the status of the
\* entry, and is the same for every permutation of the list of executions.
C2_RetrySummaryCoversGroup ==
    \A k \in 1..Len(processed_failed_jobs) :
        LET e == processed_failed_jobs[k]
        IN /\ Len(e.retry_summary) >= 1
           /\ Len(e.retry_summary) = Cardinality(ExecutionsNamed(e.full_name))
           /\ e.retry_summary \in AscendingStatuses(ExecutionsNamed(e.full_name))
           /\ e.retry_summary[Len(e.retry_summary)] = e.status
           /\ \A q \in PermutationsOf(AllJobs(pipeline)) :
                  RetrySummaryOf(q, e.full_name) = e.retry_summary

\* C3: a trace that cannot be read does not abort get_failed_jobs.
C3_TraceErrorDoesNotAbort == pc # "raised"

\* the number of times the trace of the execution of this id was read
TraceCount(id) == Cardinality({t \in 1..Len(traces) : traces[t] = id})

\* C7: when get_failed_jobs returns, the trace of an execution was read only
\* if it is the latest execution of its name, failed and no bridge, and was
\* read once; and it was read for every name whose latest execution is such.
C7_TraceOnlyForFailedCanonical ==
    pc = "done" =>
        /\ \A j \in Range(AllJobs(pipeline)) :
              TraceCount(j.id) > 0 =>
                  /\ TraceCount(j.id) = 1
                  /\ j \in LatestNamed(j.name)
                  /\ j.status = "failed"
                  /\ j.kind # ProjectPipelineBridge
        /\ \A name \in JobNames :
              (/\ LatestNamed(name) # {}
               /\ \A j \in LatestNamed(name) : j.status = "failed" /\ j.kind # ProjectPipelineBridge)
              => \E j \in LatestNamed(name) : TraceCount(j.id) = 1

\* C6: when get_failed_jobs returns, a failed job (the last of the sorted
\* group of a name) is among the mandatory failures of the report iff its
\* allow_failure is false or its truncated name fully matches a pattern of
\* jobs_allowed_to_fail_but_need_report.
C6_MandatoryIffReportable ==
    pc = "done" =>
        \A k \in 1..Len(failed_jobs) :
            LET g == failed_jobs[k]
                last == g.jobs[Len(g.jobs)]
                name == truncate_job_name(g.name, DefaultMaxCharPerJob)
            IN (\E e \in Range(all_mandatory_failures(processed_failed_jobs)) :
                    e.full_name = g.name /\ e.id = last.id)
               <=> (last.allow_failure = FALSE
                    \/ AnyFullMatch(jobs_allowed_to_fail_but_need_report, name))

\* two failed jobs that differ in allow_failure: one is reported, one is not
C6_Witness ==
    /\ pc = "done"
    /\ Len(failed_jobs) = 2
    /\ failed_jobs[1].jobs[Len(failed_jobs[1].jobs)].allow_failure
    /\ ~failed_jobs[2].jobs[Len(failed_jobs[2].jobs)].allow_failure
    /\ Len(all_mandatory_failures(processed_failed_jobs)) = 1
    /\ processed_failed_jobs[1].full_name = failed_jobs[2].name

----------------------------------------------------------------------------
(* Properties of get_jobs_skipped_on_pr. *)

\* one pull request holds the commit and its branch has a pipeline
Correlated ==
    /\ Len(sk_in.world.prs) = 1
    /\ Len(sk_in.world.pipelines[sk_in.world.prs[1].ref]) > 0

\* the executions of the pull request's pipeline
PrExecutions ==
    LET pl == sk_in.world.pipelines[sk_in.world.prs[1].ref][1]
    IN Range(pl.jobs) \cup Range(pl.bridges)

\* no execution carries the full name of the failed job, or one that does
\* has a status other than failed and success
IsSkippedOnPr(failed_job) ==
    \/ \A j \in PrExecutions : j.name # failed_job.full_name
    \/ \E j \in PrExecutions :
          j.name = failed_job.full_name /\ j.status # "failed" /\ j.status # "success"

NamesOfJobs(q) == [i \in 1..Len(q) |-> q[i].name]

\* C5: once a pull request and its pipeline are resolved, the list returned
\* names exactly the mandatory failed jobs that have no execution of their
\* full name in the pull request's pipeline, or have one whose status is
\* neither failed nor success; the full name is compared, not the truncated one.
C5_SkippedExactly ==
    (sk_pc = "done" /\ Correlated) =>
        sk_result[1] = NamesOfJobs(SelectSeq(sk_in.failed, IsSkippedOnPr))

\* build:amd64 failed; the pull request's pipeline ran build, not
\* build:amd64: the job is listed under its truncated name
C5_Witness ==
    /\ sk_pc = "done" /\ Correlated
    /\ NamesOfJobs(sk_in.failed) = <<Build>>
    /\ sk_in.failed[1].full_name = BuildAmd64
    /\ \E j \in PrExecutions : j.name = Build /\ j.status = "success"
    /\ \A j \in PrExecutions : j.name # BuildAmd64
    /\ sk_result[1] = <<Build>>

\* C8: with no pull request, with several, or with no pipeline on the pull
\* request's branch, the pair (empty list, empty string) is returned and the
\* executions of a pull request's pipeline are never listed.
C8_NoCorrelation ==
    (sk_pc = "done" /\ ~Correlated) =>
        /\ sk_result = <<<<>>, <<>>>>
        /\ "jobs.list" \notin Range(sk_calls)
        /\ "bridges.list" \notin Range(sk_calls)

\* two pull requests hold the commit; the branch of the first has a pipeline
\* whose job would count as skipped
C8_Witness ==
    /\ sk_pc = "done"
    /\ Len(sk_in.world.prs) = 2
    /\ sk_in.world.pipelines[sk_in.world.prs[1].ref] = <<APipeline>>
    /\ Len(sk_in.failed) > 0
    /\ sk_result = <<<<>>, <<>>>>

\* a is b with some elements left out
RECURSIVE IsSubsequence(_, _)
IsSubsequence(a, b) ==
    IF a = <<>> THEN TRUE
    ELSE IF b = <<>> THEN FALSE
    ELSE IF a[1] = b[1] THEN IsSubsequence(Tail(a), Tail(b))
    ELSE IsSubsequence(a, Tail(b))

\* C10: each mandatory failed job adds at most one entry to the list, in the
\* order of the mandatory failures, whatever the executions of its name.
C10_AtMostOneEntryPerJob ==
    (sk_pc = "done" /\ Correlated) =>
        /\ Len(sk_result[1]) <= Len(sk_in.failed)
        /\ IsSubsequence(sk_result[1], NamesOfJobs(sk_in.failed))

\* the pull request's pipeline holds two unfinished executions of the name
\* of the one failed job, which is listed once
C10_Witness ==
    /\ sk_pc = "done" /\ Correlated
    /\ Len(sk_in.failed) = 1
    /\ Cardinality({i \in 1..Len(sk_in.world.pipelines["feature"][1].jobs) :
            LET j == sk_in.world.pipelines["feature"][1].jobs[i]
            IN j.name = sk_in.failed[1].full_name /\ j.status = "running"}) >= 2
    /\ Len(sk_result[1]) = 1

====
